---- MODULE Spec2Model ----
(***************************************************************************)
(* EssayGenius: the job-based generation workflow with credit metering and *)
(* client-side status polling.                                             *)
(*                                                                         *)
(* The browser side (EssayForm, src/frontend/app/components/essay-form.tsx *)
(* and the API clients under src/frontend/app) is translated from the      *)
(* source.  The FastAPI backend (credit ledger, job store, pipeline) is    *)
(* not part of the source tree; it is modelled from the specification      *)
(* (spec.md sections 3, 4.1, 4.2, 4.3).                                    *)
(***************************************************************************)
EXTENDS Integers, Sequences, FiniteSets, Bags, TLC

VARIABLES
    \* ---- backend: credit ledger and job store ----
    credits,            \* user_profiles.credits of the user
    jobs,               \* job store: job id -> job record
    served,             \* the job and the snapshot of the last getStatus call
    \* ---- network ----
    subs,               \* submissions: slot -> request / response in flight
    polls,              \* bag of the form's status polls: responses in flight, continuations
    \* ---- EssayForm state (useState hooks) ----
    currentStep,
    isLoading,
    loadingProgress,
    loadingStage,
    error,
    jobId,
    essayJobId,
    showCreditConfirmation,
    userCredits,
    insufficientCredits,
    isGeneratingOutline,
    isGeneratingEssay,
    citations,
    outline,
    apiOutline,
    creditReads,        \* getUserCredits() calls of the form not yet resolved
    navigated,          \* window.location.href was assigned: the form is gone
    formData,           \* the typed inputs of steps 1 to 3
    pastedEssay,        \* the previous essay pasted at step 4
    \* ---- the middleware of the frontend ----
    request,            \* the last request the middleware was handed
    response,           \* the middleware's answer to it
    \* ---- AuthProvider, AuthCheck and the user_profiles table ----
    auth,               \* the AuthContext value: user, isLoading
    href,               \* the page the router shows
    profiles,           \* the rows of user_profiles with the user's id
    localStorage,       \* the keys set in the browser's localStorage
    ensure,             \* loadSession and the auth-change handler: where each stands
    \* ---- history ----
    observed            \* job id -> what the form's poller has learnt of the job

serverVars == <<credits, jobs, served>>

inputVars == <<formData, pastedEssay>>

routeVars == <<request, response>>

authVars == <<auth, href, profiles, localStorage, ensure>>

formVars == <<currentStep, isLoading, loadingProgress, loadingStage,
              error, jobId, essayJobId,
              showCreditConfirmation, userCredits, insufficientCredits,
              isGeneratingOutline, isGeneratingEssay, citations, outline,
              apiOutline, creditReads, navigated, observed, inputVars>>

vars == <<credits, jobs, served, subs, polls, currentStep, isLoading,
          loadingProgress, loadingStage, error, jobId,
          essayJobId, showCreditConfirmation, userCredits, insufficientCredits,
          isGeneratingOutline, isGeneratingEssay, citations, outline,
          apiOutline, creditReads, navigated, observed, formData, pastedEssay,
          request, response, auth, href, profiles, localStorage, ensure>>

----------------------------------------------------------------------------
(* Bounds of the model *)

MaxJobs == 2          \* job ids 1..MaxJobs
MaxPolls == 2         \* status polls of the form in flight at once
MaxCredits == 4       \* purchases stop at this balance
MaxSections == 2      \* sections of the outline in the form
MaxSubsections == 2   \* subsections of a section

(* Program constants *)

Cost == 2             \* credits consumed by one generation
InitialGrant == 2     \* credits of a new profile
totalSteps == 6

JobIds == 1..MaxJobs
SubSlots == {"s1", "s2"}        \* two submissions can be in flight at once
PurchaseQuantities == {1, 2}
SourceIds == {1, 2, 3}          \* num_sources: 3

----------------------------------------------------------------------------
(* Job records: spec.md section 3, "Job" *)

NoJob ==
    [kind |-> "none", status |-> "none", progress |-> 0, stage |-> "none",
     result |-> "none", error |-> "none"]

OutlineStages == <<"creating_outline", "finding_sources">>
EssayStages == <<"writing_essay", "checking_plagiarism", "finalizing">>

StagesOf(kind) == IF kind = "outline" THEN OutlineStages ELSE EssayStages

StageIndex(kind, stage) ==
    CHOOSE i \in 1..Len(StagesOf(kind)) : StagesOf(kind)[i] = stage

\* stage-indexed progress: the i-th of n stages reports (i-1)*100/(n+1)
StageProgressReset(kind, i) == IF i = 1 THEN 10 ELSE 0

StageProgress(kind, i) == ((i - 1) * 100) \div (Len(StagesOf(kind)) + 1)

NewJob(kind) ==
    [kind |-> kind, status |-> "processing", progress |-> StageProgress(kind, 1),
     stage |-> StagesOf(kind)[1], result |-> "none", error |-> "none"]

IsTerminal(job) == job.status \in {"completed", "failed"}

JobCount == Cardinality({j \in JobIds : jobs[j].kind # "none"})

NextJobId == JobCount + 1

\* a stage may write the record only while the job is processing
CanMutateAlways(job) == job.kind # "none"

CanMutate(job) == job.status = "processing"

AdvancedRecord(job) ==
    LET i == StageIndex(job.kind, job.stage) + 1
    IN  [job EXCEPT !.stage = StagesOf(job.kind)[i],
                    !.progress = StageProgress(job.kind, i)]

CompletedBoth(job, res) ==
    [job EXCEPT !.status = "completed", !.progress = 100, !.result = res,
                !.error = "generic"]

CompletedRecord(job, res) ==
    [job EXCEPT !.status = "completed", !.progress = 100, !.result = res]

FailedRecord(job, msg) == [job EXCEPT !.status = "failed", !.error = msg]

ResultsOf(kind) == IF kind = "outline" THEN {"outline"} ELSE {"paper", "nopaper"}

FailureMessages == {"generic", "guardrail"}

----------------------------------------------------------------------------
(* Credit ledger: spec.md section 4.1 *)

DebitUnchecked(balance, amount) == [ok |-> TRUE, balance |-> balance - amount]

DebitOne(balance, amount) ==
    IF balance < amount
    THEN [ok |-> FALSE, balance |-> balance]
    ELSE [ok |-> TRUE, balance |-> balance - 1]

DebitOffByOne(balance, amount) ==
    IF balance + 1 < amount
    THEN [ok |-> FALSE, balance |-> balance]
    ELSE [ok |-> TRUE, balance |-> balance - amount]

\* debit(user, amount) -> success | InsufficientBalance
Debit(balance, amount) ==
    IF balance < amount
    THEN [ok |-> FALSE, balance |-> balance]
    ELSE [ok |-> TRUE, balance |-> balance - amount]

\* the generate-essay submission is covered by the debit of its outline job
CostOf(kind) == IF kind = "outline" THEN Cost ELSE 0

RefundOnFailure(balance) == balance + Cost

\* no rollback on downstream pipeline failure
BalanceAfterFailure(balance) == balance

----------------------------------------------------------------------------
(* Submissions in flight *)

----------------------------------------------------------------------------
(* The middleware of the frontend.  A path is the sequence of its          *)
(* characters, so that startsWith is the prefix test of the code.          *)

StartsWith(str, prefix) ==
    /\ Len(prefix) <= Len(str)
    /\ SubSeq(str, 1, Len(prefix)) = prefix

signin == <<"/", "s", "i", "g", "n", "i", "n">>

dashboard == <<"/", "d", "a", "s", "h", "b", "o", "a", "r", "d">>

callback == <<"/", "a", "u", "t", "h", "/", "c", "a", "l", "l", "b", "a", "c", "k">>

authRoutes ==
    {<<"/", "s", "i", "g", "n", "i", "n">>,
     <<"/", "s", "i", "g", "n", "u", "p">>,
     <<"/", "f", "o", "r", "g", "o", "t", "-", "p", "a", "s", "s", "w", "o", "r", "d">>}

publicRoutes ==
    {<<"/", "a", "u", "t", "h", "/", "v", "e", "r", "i", "f", "y", "-", "e", "m", "a", "i", "l">>,
     <<"/", "a", "u", "t", "h", "/", "c", "a", "l", "l", "b", "a", "c", "k">>,
     <<"/">>,
     <<"/", "a", "b", "o", "u", "t">>,
     <<"/", "t", "e", "r", "m", "s", "-", "o", "f", "-", "s", "e", "r", "v", "i", "c", "e">>,
     <<"/", "p", "r", "i", "v", "a", "c", "y", "-", "p", "o", "l", "i", "c", "y">>}

authProtectedRoutes ==
    {<<"/", "d", "a", "s", "h", "b", "o", "a", "r", "d">>,
     <<"/", "d", "a", "s", "h", "b", "o", "a", "r", "d", "/", "p", "a", "p", "e", "r", "s">>,
     <<"/", "d", "a", "s", "h", "b", "o", "a", "r", "d", "/", "b", "u", "y", "-", "c", "r", "e", "d", "i", "t", "s">>,
     <<"/", "d", "a", "s", "h", "b", "o", "a", "r", "d", "/", "h", "e", "l", "p">>}

apiRoutes == {<<"/", "a", "p", "i", "/", "v", "1">>}

\* config.matcher: the patterns with :path* and the exact ones
matcherTrees == {<<"/", "a", "p", "i", "/", "v", "1">>, dashboard}

matcherExact ==
    {<<"/", "s", "i", "g", "n", "i", "n">>,
     <<"/", "s", "i", "g", "n", "u", "p">>,
     <<"/", "f", "o", "r", "g", "o", "t", "-", "p", "a", "s", "s", "w", "o", "r", "d">>,
     <<"/", "a", "u", "t", "h", "/", "r", "e", "s", "e", "t", "-", "p", "a", "s", "s", "w", "o", "r", "d">>,
     <<"/", "a", "u", "t", "h", "/", "v", "e", "r", "i", "f", "y", "-", "e", "m", "a", "i", "l">>,
     <<"/", "a", "u", "t", "h", "/", "c", "a", "l", "l", "b", "a", "c", "k">>}

Matches(pathname) ==
    \/ pathname \in matcherExact
    \/ \E m \in matcherTrees :
           pathname = m \/ StartsWith(pathname, Append(m, "/"))

\* src/frontend/middleware/csrf.ts.  A token or a hash is a sequence of
\* strings and <<>> stands for an absent or empty value.  SHA-256 is a
\* symbolic hash: one to one, and no value is its own hash.
CSRF_SECRET == "secret"

\* generateToken(): the values the random draw can give
Tokens == {<<"t1">>, <<"t2">>}

hashToken(token) == <<"sha256">> \o token \o <<CSRF_SECRET>>

\* mutant: the stored value is accepted as it is
verifyTokenPlain(token, hash) == token = hash

verifyToken(token, hash) == hashToken(token) = hash

Methods == {"GET", "HEAD", "OPTIONS", "POST", "PUT", "DELETE", "PATCH"}

\* csrfMiddleware(req): the status of the response it returns and the
\* csrf-token cookie set on that response
csrfMiddleware(req) ==
    LET csrfToken == IF req.cookie = <<>> THEN req.random ELSE req.cookie
        set == IF req.cookie = <<>> THEN hashToken(req.random) ELSE <<>>
    IN  IF req.method \in {"GET", "HEAD", "OPTIONS"}
        THEN [status |-> 200, setCookie |-> <<>>]
        ELSE IF req.header = <<>> \/ ~verifyToken(req.header, csrfToken)
        THEN [status |-> 403, setCookie |-> <<>>]
        ELSE [status |-> 200, setCookie |-> set]

\* the requests: session is what supabase.auth.getSession() gives (a
\* session, none, an error, or an exception), hasCode whether the query
\* has a code parameter, cookie the csrf-token cookie, header the
\* x-csrf-token header, random the draw of generateToken()
Pathnames ==
    {<<"/">>,
     <<"/", "a", "b", "o", "u", "t">>,
     <<"/", "d", "a", "s", "h", "b", "o", "a", "r", "d">>,
     <<"/", "d", "a", "s", "h", "b", "o", "a", "r", "d", "/", "p", "a", "p", "e", "r", "s">>,
     <<"/", "d", "a", "s", "h", "b", "o", "a", "r", "d", "/", "h", "e", "l", "p">>,
     <<"/", "s", "i", "g", "n", "i", "n">>,
     <<"/", "s", "i", "g", "n", "u", "p">>,
     <<"/", "a", "p", "i", "/", "v", "1">>,
     <<"/", "a", "p", "i", "/", "v", "1", "/", "x">>,
     <<"/", "a", "u", "t", "h", "/", "c", "a", "l", "l", "b", "a", "c", "k">>,
     <<"/", "p", "r", "i", "c", "i", "n", "g">>}

SessionOutcomes == {"session", "none", "error", "throws"}

\* page requests of a browser, and requests to the API with every
\* combination of method, cookie and header
Requests ==
    [pathname : Pathnames, session : SessionOutcomes, hasCode : BOOLEAN,
     method : {"GET"}, cookie : {<<>>}, header : {<<>>}, random : {<<"t1">>}]
    \cup
    [pathname : {p \in Pathnames : \E route \in apiRoutes : StartsWith(p, route)},
     session : {"none"}, hasCode : {FALSE}, method : Methods,
     cookie : {<<>>} \cup {hashToken(t) : t \in Tokens},
     header : {<<>>} \cup Tokens \cup {hashToken(t) : t \in Tokens},
     random : Tokens]

NoRequest ==
    [pathname |-> <<>>, session |-> "none", hasCode |-> FALSE, method |-> "GET",
     cookie |-> <<>>, header |-> <<>>, random |-> <<>>]

NoResponse == [kind |-> "none", pathname |-> <<>>, redirect |-> <<>>, setCookie |-> <<>>]

\* NextResponse.next(): the request goes on to the page
PassThrough == [kind |-> "next", pathname |-> <<>>, redirect |-> <<>>, setCookie |-> <<>>]

\* the 403 response of csrfMiddleware, a new response
Forbidden == [kind |-> "forbidden", pathname |-> <<>>, redirect |-> <<>>, setCookie |-> <<>>]

\* NextResponse.redirect to pathname, with the search parameter redirect
Redirect(pathname, redirect) ==
    [kind |-> "redirect", pathname |-> pathname, redirect |-> redirect, setCookie |-> <<>>]

isPublicRoute(pathname) ==
    \E route \in publicRoutes : pathname = route \/ StartsWith(pathname, route)

isProtectedRoute(pathname) ==
    \E route \in authProtectedRoutes : StartsWith(pathname, route)

isAuthRoute(pathname) == pathname \in authRoutes

middleware(req) ==
    IF /\ \E route \in apiRoutes : StartsWith(req.pathname, route)
       /\ csrfMiddleware(req).status = 403
    THEN Forbidden
    ELSE IF req.pathname = callback /\ req.hasCode THEN PassThrough
    ELSE IF isPublicRoute(req.pathname) THEN PassThrough
    ELSE IF ~isProtectedRoute(req.pathname) /\ ~isAuthRoute(req.pathname) THEN PassThrough
    ELSE IF req.session = "throws" THEN PassThrough
    ELSE IF req.session = "error" THEN Redirect(signin, <<>>)
    ELSE IF isProtectedRoute(req.pathname) /\ req.session = "none"
         THEN Redirect(signin, req.pathname)
    ELSE IF isAuthRoute(req.pathname) /\ req.session = "session"
         THEN Redirect(dashboard, <<>>)
    ELSE PassThrough

----------------------------------------------------------------------------
(* AuthProvider with ensureUserProfile, and AuthCheck.  The user_profiles  *)
(* table is outside the source tree: its rows are keyed by the user's id.  *)

NoUser == "none"

profileKey == "profile_created"

Callers == {"loadSession", "authChange"}

\* insert of a row: a second row with the same id is refused
InsertProfile(rows, row) ==
    IF rows # <<>>
    THEN [ok |-> FALSE, rows |-> rows]
    ELSE [ok |-> TRUE, rows |-> <<row>>]

\* update({ email, updated_at }).eq('id', userId) (mutant: credits too)
UpdateResetsCredits(rows) ==
    [i \in 1..Len(rows) |-> [rows[i] EXCEPT !.email = "new", !.credits = InitialGrant]]

UpdateProfile(rows) ==
    [i \in 1..Len(rows) |-> [rows[i] EXCEPT !.email = "new"]]

isAuthenticated(a) == a.user # NoUser

\* the effect of AuthCheck (mutant: the loading test negated)
ShouldRedirectWhileLoading(a) == a.isLoading /\ ~isAuthenticated(a)

ShouldRedirect(a) == ~a.isLoading /\ ~isAuthenticated(a)

\* the page after AuthCheck's effect has run for the context value a
AfterAuthCheck(page, a) ==
    IF page = dashboard /\ ShouldRedirect(a) THEN signin ELSE page

\* AuthCheck renders its children, the dashboard content
ContentRendered ==
    /\ href = dashboard
    /\ ~(auth.isLoading \/ ~isAuthenticated(auth))

\* the state of the other specifications: signed in, profile in place
AuthSettled ==
    /\ auth = [user |-> "u", isLoading |-> FALSE]
    /\ href = dashboard
    /\ profiles = <<[credits |-> InitialGrant, email |-> "new"]>>
    /\ localStorage = {profileKey}
    /\ ensure = [c \in Callers |->
                    [pc |-> IF c = "loadSession" THEN "done" ELSE "idle",
                     existingProfile |-> FALSE]]

\* ensureUserProfile is called: it returns at once when the key is set
EnsureCalled(c) ==
    IF profileKey \in localStorage
    THEN [pc |-> IF c = "loadSession" THEN "done" ELSE "idle", existingProfile |-> FALSE]
    ELSE [pc |-> "select", existingProfile |-> FALSE]

\* ensureUserProfile returns to its caller; loadSession then runs its
\* finally block
EnsureReturns(c) ==
    /\ ensure' = [ensure EXCEPT ![c] =
                     [pc |-> IF c = "loadSession" THEN "done" ELSE "idle",
                      existingProfile |-> FALSE]]
    /\ auth' = IF c = "loadSession" THEN [auth EXCEPT !.isLoading = FALSE] ELSE auth
    /\ href' = AfterAuthCheck(href, auth')

\* supabase.auth.getSession() of loadSession resolves
LoadSessionDone(outcome) ==
    /\ ensure["loadSession"].pc = "getSession"
    /\ IF outcome = "session"
       THEN /\ ensure' = [ensure EXCEPT !["loadSession"] = EnsureCalled("loadSession")]
            /\ auth' = [user |-> "u",
                        isLoading |-> IF ensure'["loadSession"].pc = "done"
                                      THEN FALSE ELSE auth.isLoading]
       ELSE /\ ensure' = [ensure EXCEPT !["loadSession"].pc = "done"]
            /\ auth' = IF outcome = "throws"
                       THEN [auth EXCEPT !.isLoading = FALSE]
                       ELSE [user |-> NoUser, isLoading |-> FALSE]
    /\ href' = AfterAuthCheck(href, auth')
    /\ UNCHANGED <<serverVars, subs, polls, formVars, routeVars, profiles, localStorage>>

AuthEvents ==
    {[event |-> "SIGNED_IN", user |-> "u"], [event |-> "TOKEN_REFRESHED", user |-> "u"],
     [event |-> "INITIAL_SESSION", user |-> NoUser], [event |-> "SIGNED_OUT", user |-> NoUser]}

\* the onAuthStateChange callback
OnAuthStateChange(e) ==
    /\ ensure["authChange"].pc = "idle"
    /\ auth' = [user |-> e.user, isLoading |-> FALSE]
    /\ ensure' = IF e.user # NoUser /\ e.event = "SIGNED_IN"
                 THEN [ensure EXCEPT !["authChange"] = EnsureCalled("authChange")]
                 ELSE ensure
    /\ href' = AfterAuthCheck(href, auth')
    /\ UNCHANGED <<serverVars, subs, polls, formVars, routeVars, profiles, localStorage>>

\* ensureUserProfile: the select of the user's profile resolves
EnsureSelect(c, ok) ==
    /\ ensure[c].pc = "select"
    /\ IF ok /\ Len(profiles) <= 1
       THEN /\ ensure' = [ensure EXCEPT ![c] =
                            [pc |-> "write", existingProfile |-> profiles # <<>>]]
            /\ UNCHANGED <<auth, href>>
       ELSE EnsureReturns(c)
    /\ UNCHANGED <<serverVars, subs, polls, formVars, routeVars, profiles, localStorage>>

\* ensureUserProfile: the update or the insert resolves
EnsureWrite(c, ok) ==
    /\ ensure[c].pc = "write"
    /\ IF ~ok
       THEN UNCHANGED <<profiles, localStorage>>
       ELSE IF ensure[c].existingProfile
       THEN /\ profiles' = UpdateProfile(profiles)
            /\ localStorage' = localStorage \cup {profileKey}
       ELSE /\ profiles' = InsertProfile(profiles, [credits |-> InitialGrant, email |-> "new"]).rows
            /\ localStorage' = IF InsertProfile(profiles, [credits |-> InitialGrant, email |-> "new"]).ok
                               THEN localStorage \cup {profileKey}
                               ELSE localStorage
    /\ EnsureReturns(c)
    /\ UNCHANGED <<serverVars, subs, polls, formVars, routeVars>>

\* the backend debits the profile's balance for an outline job
SpendCredits ==
    /\ Len(profiles) = 1
    /\ Debit(profiles[1].credits, Cost).ok
    /\ profiles' = [profiles EXCEPT ![1].credits = Debit(@, Cost).balance]
    /\ UNCHANGED <<serverVars, subs, polls, formVars, routeVars, auth, href,
                   localStorage, ensure>>

\* outline and sources are the payload of a generate-essay request
FreeSub ==
    [kind |-> "none", phase |-> "free", res |-> "none", job |-> 0,
     outline |-> <<>>, sources |-> <<>>]

PLACEHOLDER_CITATIONS == [from |-> 0, selected |-> {}]

\* a section of the form's outline: shared # 0 says that its subsections
\* array is the subtopics array of that component of apiOutline (the same
\* object), shared = 0 that the array is the section's own
PLACEHOLDER_OUTLINE ==
    [from |-> 0,
     sections |-> <<[title |-> "placeholder", shared |-> 0,
                     subsections |-> <<"placeholder">>]>>]

\* useState<any>(null): no outline was received from the API
NoApiOutline == [from |-> 0, outline_components |-> <<>>]

\* status.result.outline of the completed outline job j
ResultOutline(j) ==
    [from |-> j,
     outline_components |-> <<[main_idea |-> "idea", subtopics |-> <<"topic">>]>>]

InitApp ==
    /\ credits = InitialGrant
    /\ jobs = [j \in JobIds |-> NoJob]
    /\ served = [job |-> 0, snap |-> NoJob]
    /\ subs = [s \in SubSlots |-> FreeSub]
    /\ polls = EmptyBag
    /\ currentStep = 1
    /\ isLoading = FALSE
    /\ loadingProgress = 0
    /\ loadingStage = "none"
    /\ error = "none"
    /\ jobId = 0
    /\ essayJobId = 0
    /\ showCreditConfirmation = FALSE
    /\ userCredits = -1
    /\ insufficientCredits = FALSE
    /\ isGeneratingOutline = FALSE
    /\ isGeneratingEssay = FALSE
    /\ citations = PLACEHOLDER_CITATIONS
    /\ outline = PLACEHOLDER_OUTLINE
    /\ apiOutline = NoApiOutline
    /\ creditReads = {"mount"}
    /\ navigated = FALSE
    /\ observed = [j \in JobIds |-> "none"]
    /\ formData = [topic |-> ""]
    /\ pastedEssay = ""
    /\ request = NoRequest
    /\ response = NoResponse

Init == InitApp /\ AuthSettled

----------------------------------------------------------------------------
(* Backend operations (spec.md sections 4.1 - 4.3) *)

\* submit(request): debit, then create the Job record and answer its id;
\* InsufficientBalance creates no job
ServerSubmit(s) ==
    /\ subs[s].phase = "sent"
    /\ LET d == Debit(credits, CostOf(subs[s].kind))
       IN  IF d.ok
           THEN /\ NextJobId \in JobIds
                /\ credits' = d.balance
                /\ jobs' = [jobs EXCEPT ![NextJobId] = NewJob(subs[s].kind)]
                /\ subs' = [subs EXCEPT ![s].phase = "answered",
                                        ![s].res = "accepted",
                                        ![s].job = NextJobId]
           ELSE /\ subs' = [subs EXCEPT ![s].phase = "answered",
                                        ![s].res = "InsufficientBalance"]
                /\ UNCHANGED <<credits, jobs>>
    /\ UNCHANGED <<served, polls, formVars, routeVars, authVars>>

\* the content screening refuses the request: the answer is a body with an
\* error field that holds the guardrail pattern, as the form tests it
ServerRejectsContent(s) ==
    /\ subs[s].phase = "sent"
    /\ subs' = [subs EXCEPT ![s].phase = "answered", ![s].res = "guardrail"]
    /\ UNCHANGED <<serverVars, routeVars, authVars, inputVars, polls, formVars, routeVars, authVars>>

\* a pipeline stage hands over to the next one
StageAdvance(j) ==
    /\ CanMutate(jobs[j])
    /\ StageIndex(jobs[j].kind, jobs[j].stage) < Len(StagesOf(jobs[j].kind))
    /\ jobs' = [jobs EXCEPT ![j] = AdvancedRecord(jobs[j])]
    /\ UNCHANGED <<credits, served, subs, polls, formVars, routeVars, authVars>>

\* the last stage of the job ends with a valid output
StageComplete(j) ==
    /\ CanMutate(jobs[j])
    /\ StageIndex(jobs[j].kind, jobs[j].stage) = Len(StagesOf(jobs[j].kind))
    /\ \E res \in ResultsOf(jobs[j].kind) :
           jobs' = [jobs EXCEPT ![j] = CompletedRecord(jobs[j], res)]
    /\ UNCHANGED <<credits, served, subs, polls, formVars, routeVars, authVars>>

\* a stage exception (or a guardrail rejection) ends the job as failed
StageFail(j) ==
    /\ CanMutate(jobs[j])
    /\ \E msg \in FailureMessages :
           jobs' = [jobs EXCEPT ![j] = FailedRecord(jobs[j], msg)]
    /\ credits' = BalanceAfterFailure(credits)
    /\ UNCHANGED <<served, subs, polls, formVars, routeVars, authVars>>

\* credit(user, amount) at purchase completion
Purchase(q) ==
    /\ credits + q <= MaxCredits
    /\ credits' = credits + q
    /\ UNCHANGED <<jobs, served, subs, polls, formVars, routeVars, authVars>>

\* getStatus(JobId) -> Job: the current snapshot
GetStatus(j) ==
    /\ jobs[j].kind # "none"
    /\ served' = [job |-> j, snap |-> jobs[j]]
    /\ UNCHANGED <<credits, jobs, subs, polls, formVars, routeVars, authVars>>

----------------------------------------------------------------------------
(* EssayForm: src/frontend/app/components/essay-form.tsx                    *)
(* The form data is taken to be filled in and valid (isStepValid holds).    *)

\* getStepTitle: step 1 is "Essay Topic", step 6 is "Outline"
TopicStep == 1

OutlineEditingStep == 6

\* the navigation buttons are rendered and no modal dialog covers them
ButtonsShown ==
    /\ ~navigated
    /\ error = "none"
    /\ ~isLoading
    /\ ~showCreditConfirmation

\* the purchase overlay covers the card
CreditsOverlay ==
    /\ (userCredits # -1 /\ userCredits <= 0) \/ insufficientCredits
    /\ currentStep = 1

\* the Purchase Credits prompt is on the screen: the overlay is part of
\* the form's main return, which the error screen replaces
PurchasePrompt == CreditsOverlay /\ error = "none" /\ ~navigated

\* what a status request gets: the job's snapshot, or the fetch fails
FetchError ==
    [kind |-> "none", status |-> "fetch_error", progress |-> 0, stage |-> "none",
     result |-> "none", error |-> "none"]

StatusAnswers(j) == {jobs[j], FetchError}

StatusPoll(kind, j, snap) == [kind |-> kind, job |-> j, phase |-> "answered", snap |-> snap]

\* the polling effects, deps [jobId, isLoading] and [essayJobId, isLoading]:
\* an effect whose deps changed runs again and, with a job id and in loading
\* state, polls once at once
OutlineEffectRuns(nj, nl) == nj # 0 /\ nl /\ <<nj, nl>> # <<jobId, isLoading>>

EssayEffectRuns(ne, nl) == ne # 0 /\ nl /\ <<ne, nl>> # <<essayJobId, isLoading>>

EffectPolls(runs, kind, j) ==
    IF runs THEN {SetToBag({StatusPoll(kind, j, a)}) : a \in StatusAnswers(j)}
    ELSE {EmptyBag}

\* the possible polls in flight after the effects of a render with the new
\* state ran (within the bound on polls in flight)
AfterEffects(p, nj, ne, nl) ==
    {q \in {p (+) o (+) e : o \in EffectPolls(OutlineEffectRuns(nj, nl), "outline", nj),
                            e \in EffectPolls(EssayEffectRuns(ne, nl), "essay", ne)} :
        BagCardinality(q) <= MaxPolls}

\* what getUserProfile() meets: the profile row, no user (or an error of
\* getUser), an error of the query, or an exception
ProfileOutcomes == {"profile", "no_user", "query_error", "throws"}

\* getUserProfile(): the profile, or null
getUserProfile(outcome) ==
    IF outcome = "profile" THEN [found |-> TRUE, credits |-> credits]
    ELSE [found |-> FALSE, credits |-> 0]

\* mutant: an unreadable profile counts as a balance that covers the cost
getUserCreditsOpen(outcome) ==
    IF getUserProfile(outcome).found THEN getUserProfile(outcome).credits ELSE Cost

\* getUserCredits(): profile?.credits || 0
getUserCredits(outcome) ==
    IF getUserProfile(outcome).found THEN getUserProfile(outcome).credits ELSE 0

GetUserCreditsValues == {getUserCredits(outcome) : outcome \in ProfileOutcomes}

\* useEffect(fetchCredits, []) resolves
FetchCreditsDone(outcome) ==
    /\ ~navigated
    /\ "mount" \in creditReads
    /\ userCredits' = getUserCredits(outcome)
    /\ insufficientCredits' = (getUserCredits(outcome) < Cost)
    /\ creditReads' = creditReads \ {"mount"}
    /\ UNCHANGED <<serverVars, routeVars, authVars, inputVars, observed, subs, polls, currentStep, isLoading,
                   loadingProgress, loadingStage, error, jobId,
                   essayJobId, showCreditConfirmation, isGeneratingOutline,
                   isGeneratingEssay, citations, outline, apiOutline, navigated>>

\* the getUserCredits() of confirmAndGenerateOutline resolves
RefreshCreditsDone ==
    /\ ~navigated
    /\ "refresh" \in creditReads
    /\ \E c \in GetUserCreditsValues : userCredits' = c
    /\ creditReads' = creditReads \ {"refresh"}
    /\ UNCHANGED <<serverVars, routeVars, authVars, inputVars, observed, subs, polls, currentStep, isLoading,
                   loadingProgress, loadingStage, error, jobId,
                   essayJobId, showCreditConfirmation, insufficientCredits,
                   isGeneratingOutline, isGeneratingEssay, citations, outline,
                   apiOutline, navigated>>

\* Back button
Back ==
    /\ ButtonsShown
    /\ currentStep # 1
    /\ currentStep' = currentStep - 1
    /\ UNCHANGED <<serverVars, routeVars, authVars, inputVars, observed, subs, polls, isLoading, loadingProgress,
                   loadingStage, error, jobId, essayJobId,
                   showCreditConfirmation, userCredits, insufficientCredits,
                   isGeneratingOutline, isGeneratingEssay, citations, outline,
                   apiOutline, creditReads, navigated>>

\* the texts typed or pasted into an input
Texts == {"", "text"}

\* the topic textarea of step 1
HandlePromptChange(newPrompt) ==
    /\ ButtonsShown
    /\ ~CreditsOverlay
    /\ currentStep = 1
    /\ formData.topic # newPrompt
    /\ formData' = [formData EXCEPT !.topic = newPrompt]
    /\ UNCHANGED <<serverVars, routeVars, authVars, pastedEssay, observed, subs, polls, currentStep,
                   isLoading, loadingProgress, loadingStage, error, jobId,
                   essayJobId, showCreditConfirmation, userCredits,
                   insufficientCredits, isGeneratingOutline, isGeneratingEssay,
                   citations, outline, apiOutline, creditReads, navigated>>

\* the essay textarea of step 4
SetPastedEssay(text) ==
    /\ ButtonsShown
    /\ currentStep = 4
    /\ pastedEssay # text
    /\ pastedEssay' = text
    /\ UNCHANGED <<serverVars, routeVars, authVars, formData, observed, subs, polls, currentStep,
                   isLoading, loadingProgress, loadingStage, error, jobId,
                   essayJobId, showCreditConfirmation, userCredits,
                   insufficientCredits, isGeneratingOutline, isGeneratingEssay,
                   citations, outline, apiOutline, creditReads, navigated>>

\* step 1 needs its inputs, steps 2 and 3 have defaults chosen
isStepValid == currentStep = 1 => formData.topic # ""

\* Next button on a step that only moves on
NextStep ==
    /\ ButtonsShown
    /\ ~CreditsOverlay
    /\ isStepValid
    /\ currentStep \notin {4, totalSteps}
    /\ currentStep' = currentStep + 1
    /\ UNCHANGED <<serverVars, routeVars, authVars, inputVars, observed, subs, polls, isLoading, loadingProgress,
                   loadingStage, error, jobId, essayJobId,
                   showCreditConfirmation, userCredits, insufficientCredits,
                   isGeneratingOutline, isGeneratingEssay, citations, outline,
                   apiOutline, creditReads, navigated>>

\* Next button on step 4: handleGenerateOutline opens the confirmation dialog
HandleGenerateOutline ==
    /\ ButtonsShown
    /\ currentStep = 4
    /\ showCreditConfirmation' = TRUE
    /\ UNCHANGED <<serverVars, routeVars, authVars, inputVars, observed, subs, polls, currentStep, isLoading,
                   loadingProgress, loadingStage, error, jobId,
                   essayJobId, userCredits, insufficientCredits,
                   isGeneratingOutline, isGeneratingEssay, citations, outline,
                   apiOutline, creditReads, navigated>>

\* mutant: "Yes, proceed" can be pressed without the dialog
DialogSkipped == ~navigated /\ error = "none"

DialogShown == ~navigated /\ error = "none" /\ showCreditConfirmation

\* Cancel in the confirmation dialog
CancelCreditConfirmation ==
    /\ DialogShown
    /\ showCreditConfirmation' = FALSE
    /\ UNCHANGED <<serverVars, routeVars, authVars, inputVars, observed, subs, polls, currentStep, isLoading,
                   loadingProgress, loadingStage, error, jobId,
                   essayJobId, userCredits, insufficientCredits,
                   isGeneratingOutline, isGeneratingEssay, citations, outline,
                   apiOutline, creditReads, navigated>>

SentSub(kind) ==
    [kind |-> kind, phase |-> "sent", res |-> "none", job |-> 0,
     outline |-> <<>>, sources |-> <<>>]

\* the subsections array of a section of the form's outline
Subsections(sec) ==
    IF sec.shared # 0
    THEN apiOutline.outline_components[sec.shared].subtopics
    ELSE sec.subsections

\* the form's outline as outline_components
EditedOutline ==
    [i \in 1..Len(outline.sections) |->
        [main_idea |-> outline.sections[i].title,
         subtopics |-> Subsections(outline.sections[i])]]

\* essayData.outline: apiOutline || { outline_components: ... }
SubmittedOutline ==
    IF apiOutline # NoApiOutline
    THEN apiOutline.outline_components
    ELSE EditedOutline

\* the ids of those of the citations ids (in list order) that are selected
RECURSIVE FilterSelected(_, _)
FilterSelected(ids, selected) ==
    IF ids = <<>> THEN <<>>
    ELSE (IF Head(ids) \in selected THEN <<Head(ids)>> ELSE <<>>)
             \o FilterSelected(Tail(ids), selected)

CitationIds == <<1, 2, 3>>

\* selectedSourcesData: citations.filter(citation => citation.selected).map(...)
SelectedSourcesAll == CitationIds

SelectedSourcesData == FilterSelected(CitationIds, citations.selected)

\* the generate-essay request
EssayRequest ==
    [SentSub("essay") EXCEPT !.outline = SubmittedOutline,
                             !.sources = SelectedSourcesData]

FreeSubSlot == CHOOSE s \in SubSlots : subs[s].phase = "free"

\* "Yes, proceed": confirmAndGenerateOutline up to the await in
\* fetchSourcesAndOutline
ConfirmAndGenerateOutline ==
    /\ DialogShown
    /\ \E s \in SubSlots : subs[s].phase = "free"
    /\ showCreditConfirmation' = FALSE
    /\ isLoading' = TRUE
    /\ isGeneratingOutline' = TRUE
    /\ loadingProgress' = 0
    /\ loadingStage' = "sources"
    /\ error' = "none"
    /\ subs' = [subs EXCEPT ![FreeSubSlot] = SentSub("outline")]
    /\ polls' \in AfterEffects(polls, jobId, essayJobId, TRUE)
    /\ UNCHANGED <<serverVars, routeVars, authVars, inputVars, observed, currentStep, jobId, essayJobId,
                   userCredits, insufficientCredits, isGeneratingEssay,
                   citations, outline, apiOutline, creditReads, navigated>>

\* Next button on the last step: generateFinalEssay up to its await
GenerateFinalEssay ==
    /\ ButtonsShown
    /\ currentStep = totalSteps
    /\ \E s \in SubSlots : subs[s].phase = "free"
    /\ isLoading' = TRUE
    /\ isGeneratingEssay' = TRUE
    /\ loadingProgress' = 0
    /\ error' = "none"
    /\ subs' = [subs EXCEPT ![FreeSubSlot] = EssayRequest]
    /\ polls' \in AfterEffects(polls, jobId, essayJobId, TRUE)
    /\ UNCHANGED <<serverVars, routeVars, authVars, inputVars, observed, currentStep, loadingStage, jobId, essayJobId,
                   showCreditConfirmation, userCredits, insufficientCredits,
                   isGeneratingOutline, citations, outline, apiOutline,
                   creditReads, navigated>>

\* the catch block of fetchSourcesAndOutline
OutlineSubmitFailed(s, msg) ==
    /\ error' = msg
    /\ isLoading' = FALSE
    /\ isGeneratingOutline' = FALSE
    /\ loadingProgress' = 0
    /\ loadingStage' = "none"
    /\ creditReads' = creditReads \cup {"refresh"}
    /\ subs' = [subs EXCEPT ![s] = FreeSub]
    /\ UNCHANGED <<serverVars, routeVars, authVars, inputVars, observed, polls, currentStep, jobId,
                   essayJobId, showCreditConfirmation, userCredits,
                   insufficientCredits, isGeneratingEssay, citations, outline,
                   apiOutline, navigated>>

\* the catch block of generateFinalEssay
EssaySubmitFailed(s, msg) ==
    /\ error' = msg
    /\ isLoading' = FALSE
    /\ isGeneratingEssay' = FALSE
    /\ loadingProgress' = 0
    /\ subs' = [subs EXCEPT ![s] = FreeSub]
    /\ UNCHANGED <<serverVars, routeVars, authVars, inputVars, observed, polls, currentStep, loadingStage, jobId,
                   essayJobId, showCreditConfirmation, userCredits,
                   insufficientCredits, isGeneratingOutline, citations, outline,
                   apiOutline, creditReads, navigated>>

\* the submission's await resolves with a job id: setJobId / setEssayJobId
SubmitAccepted(s) ==
    /\ ~navigated
    /\ subs[s].phase = "answered"
    /\ subs[s].res = "accepted"
    /\ subs' = [subs EXCEPT ![s] = FreeSub]
    /\ observed' = [observed EXCEPT ![subs[s].job] = "polling"]
    /\ IF subs[s].kind = "outline"
       THEN /\ jobId' = subs[s].job
            /\ creditReads' = creditReads \cup {"refresh"}
            /\ polls' \in AfterEffects(polls, subs[s].job, essayJobId, isLoading)
            /\ UNCHANGED essayJobId
       ELSE /\ essayJobId' = subs[s].job
            /\ polls' \in AfterEffects(polls, jobId, subs[s].job, isLoading)
            /\ UNCHANGED <<jobId, creditReads>>
    /\ UNCHANGED <<serverVars, routeVars, authVars, inputVars, currentStep, isLoading, loadingProgress,
                   loadingStage, error,
                   showCreditConfirmation, userCredits, insufficientCredits,
                   isGeneratingOutline, isGeneratingEssay, citations, outline,
                   apiOutline, navigated>>

\* the submission's await rejects with the server's error answer
SubmitRejected(s) ==
    /\ ~navigated
    /\ subs[s].phase = "answered"
    /\ subs[s].res \notin {"accepted", "guardrail"}
    /\ IF subs[s].kind = "outline"
       THEN OutlineSubmitFailed(s, subs[s].res)
       ELSE EssaySubmitFailed(s, subs[s].res)

\* the step set by the guardrail branch of fetchSourcesAndOutline
StepAfterTopicGuardrailLast == totalSteps

StepAfterTopicGuardrail == 1

\* the step set by the guardrail branch of generateFinalEssay
StepAfterOutlineGuardrail == 2

\* the submission's await resolves with a body whose error field holds the
\* guardrail pattern: the guardrail branch of fetchSourcesAndOutline /
\* generateFinalEssay
SubmitGuardrail(s) ==
    /\ ~navigated
    /\ subs[s].phase = "answered"
    /\ subs[s].res = "guardrail"
    /\ subs' = [subs EXCEPT ![s] = FreeSub]
    /\ isLoading' = FALSE
    /\ loadingProgress' = 0
    /\ IF subs[s].kind = "outline"
       THEN /\ error' = "guardrail_topic"
            /\ isGeneratingOutline' = FALSE
            /\ loadingStage' = "none"
            /\ currentStep' = StepAfterTopicGuardrail
            /\ creditReads' = creditReads \cup {"refresh"}
            /\ UNCHANGED isGeneratingEssay
       ELSE /\ error' = "guardrail_outline"
            /\ isGeneratingEssay' = FALSE
            /\ currentStep' = StepAfterOutlineGuardrail
            /\ UNCHANGED <<isGeneratingOutline, loadingStage, creditReads>>
    /\ UNCHANGED <<serverVars, routeVars, authVars, inputVars, observed, polls, jobId, essayJobId,
                   showCreditConfirmation, userCredits, insufficientCredits,
                   citations, outline, apiOutline, navigated>>

\* the request itself fails (no session, network): nothing reaches the server
SubmitRequestFails(s) ==
    /\ ~navigated
    /\ subs[s].phase = "sent"
    /\ IF subs[s].kind = "outline"
       THEN OutlineSubmitFailed(s, "request_failed")
       ELSE EssaySubmitFailed(s, "request_failed")

\* setInterval callback of the outline polling effect: pollJobStatus again
OutlineTick ==
    /\ ~navigated
    /\ jobId # 0 /\ isLoading
    /\ BagCardinality(polls) < MaxPolls
    /\ \E a \in StatusAnswers(jobId) :
           polls' = polls (+) SetToBag({StatusPoll("outline", jobId, a)})
    /\ UNCHANGED <<serverVars, routeVars, authVars, inputVars, subs, formVars, routeVars, authVars>>

\* setInterval callback of the essay polling effect: pollEssayStatus again
EssayTick ==
    /\ ~navigated
    /\ essayJobId # 0 /\ isLoading
    /\ BagCardinality(polls) < MaxPolls
    /\ \E a \in StatusAnswers(essayJobId) :
           polls' = polls (+) SetToBag({StatusPoll("essay", essayJobId, a)})
    /\ UNCHANGED <<serverVars, routeVars, authVars, inputVars, subs, formVars, routeVars, authVars>>

\* setLoadingStage by status.stage in pollJobStatus
LoadingStageFor(stage, old) ==
    IF stage = "creating_outline" THEN "outline"
    ELSE IF stage = "finding_sources" THEN "sources"
    ELSE old

\* the sources of the result as the citations of the form
ConvertedSourcesSelected(j) == [from |-> j, selected |-> SourceIds]

ConvertedSources(j) == [from |-> j, selected |-> {}]

ConvertedOutline(j) ==
    [from |-> j,
     sections |-> [i \in 1..Len(ResultOutline(j).outline_components) |->
                     [title |-> ResultOutline(j).outline_components[i].main_idea,
                      shared |-> i,
                      subsections |-> <<>>]]]

\* the step the form shows after the outline job completed
StepAfterOutlineSame == currentStep

StepAfterOutline == 5

\* the poll functions return true ("done polling") from these branches
PollDone(st) ==
    \/ st.status = "fetch_error"
    \/ st.status = "completed" /\ st.result # "none"
    \/ st.status = "failed"

\* history: the poll function took the completed or the failed branch for
\* the job of the answer
ObservedAfter(r) ==
    IF (r.snap.status = "completed" /\ r.snap.result # "none") \/ r.snap.status = "failed"
    THEN [observed EXCEPT ![r.job] = r.snap.status]
    ELSE observed

\* pollJobStatus from the settled getJobStatus to its return
PollJobStatus(r) ==
    LET st == r.snap
        j == r.job
        ok == st.status # "fetch_error"
        done == PollDone(st)
        nj == IF done THEN 0 ELSE jobId
        nl == IF done THEN FALSE ELSE isLoading
        rest == polls (-) SetToBag({r})
    IN  /\ ~navigated
        /\ r.phase = "answered"
        /\ r.kind = "outline"
        /\ jobId' = nj
        /\ isLoading' = nl
        /\ polls' \in AfterEffects(rest, nj, essayJobId, nl)
        /\ IF ~ok
           THEN /\ error' = "fetch_error"
                /\ isGeneratingOutline' = FALSE
                /\ loadingProgress' = 0
                /\ loadingStage' = "none"
                /\ UNCHANGED <<currentStep, citations, outline, apiOutline>>
           ELSE IF st.status = "completed" /\ st.result # "none"
           THEN /\ apiOutline' = ResultOutline(j)
                /\ outline' = ConvertedOutline(j)
                /\ citations' = ConvertedSources(j)
                /\ isGeneratingOutline' = FALSE
                /\ loadingProgress' = 100
                /\ loadingStage' = "none"
                /\ currentStep' = StepAfterOutline
                /\ UNCHANGED error
           ELSE IF st.status = "failed"
           THEN /\ error' = st.error
                /\ isGeneratingOutline' = FALSE
                /\ loadingProgress' = 0
                /\ loadingStage' = "none"
                /\ UNCHANGED <<currentStep, citations, outline, apiOutline>>
           ELSE /\ loadingProgress' = st.progress
                /\ loadingStage' = LoadingStageFor(st.stage, loadingStage)
                /\ UNCHANGED <<error, isGeneratingOutline, currentStep,
                               citations, outline, apiOutline>>
        /\ observed' = ObservedAfter(r)
        /\ UNCHANGED <<serverVars, routeVars, authVars, inputVars, subs, essayJobId,
                       showCreditConfirmation, userCredits, insufficientCredits,
                       isGeneratingEssay, creditReads, navigated>>

\* pollEssayStatus from the settled getEssayStatus to its return, or, for a
\* completed job, to the await of the one-second timeout
PollEssayStatus(r) ==
    LET st == r.snap
        ok == st.status # "fetch_error"
        completed == st.status = "completed" /\ st.result # "none"
        done == PollDone(st) /\ ~completed
        ne == IF done THEN 0 ELSE essayJobId
        nl == IF done THEN FALSE ELSE isLoading
        rest == (polls (-) SetToBag({r}))
                (+) (IF completed THEN SetToBag({[r EXCEPT !.phase = "waiting"]})
                     ELSE EmptyBag)
    IN  /\ ~navigated
        /\ r.phase = "answered"
        /\ r.kind = "essay"
        /\ essayJobId' = ne
        /\ isLoading' = nl
        /\ polls' \in AfterEffects(rest, jobId, ne, nl)
        /\ IF ~ok
           THEN /\ error' = "fetch_error"
                /\ isGeneratingEssay' = FALSE
                /\ loadingProgress' = 0
           ELSE IF st.status = "failed"
           THEN /\ error' = st.error
                /\ isGeneratingEssay' = FALSE
                /\ loadingProgress' = 0
           ELSE /\ loadingProgress' = st.progress
                /\ UNCHANGED <<error, isGeneratingEssay>>
        /\ observed' = ObservedAfter(r)
        /\ UNCHANGED <<serverVars, routeVars, authVars, inputVars, subs, currentStep, loadingStage, jobId,
                       showCreditConfirmation, userCredits, insufficientCredits,
                       isGeneratingOutline, citations, outline, apiOutline,
                       creditReads, navigated>>

\* pollEssayStatus after the one-second timeout of a completed job
EssayCompleted(r) ==
    LET paper == r.snap.result = "paper"
        nl == IF paper THEN isLoading ELSE FALSE
        rest == polls (-) SetToBag({r})
    IN  /\ ~navigated
        /\ r.phase = "waiting"
        /\ navigated' = paper
        /\ essayJobId' = 0
        /\ isLoading' = nl
        /\ isGeneratingEssay' = IF paper THEN isGeneratingEssay ELSE FALSE
        /\ loadingProgress' = IF paper THEN loadingProgress ELSE 0
        /\ polls' \in AfterEffects(rest, jobId, 0, nl)
        /\ UNCHANGED <<serverVars, routeVars, authVars, inputVars, observed, subs, currentStep, loadingStage, error, jobId,
                       showCreditConfirmation, userCredits, insufficientCredits,
                       isGeneratingOutline, citations, outline, apiOutline,
                       creditReads>>

\* the button of the error screen: handleStartOver with an error set
\* the regular start over: reset everything
HandleStartOverReset ==
    /\ ~navigated
    /\ error # "none"
    /\ currentStep' = 1
    /\ pastedEssay' = ""
    /\ outline' = PLACEHOLDER_OUTLINE
    /\ citations' = PLACEHOLDER_CITATIONS
    /\ isGeneratingOutline' = FALSE
    /\ isGeneratingEssay' = FALSE
    /\ error' = "none"
    /\ UNCHANGED <<serverVars, routeVars, authVars, formData, observed, subs, polls, isLoading,
                   loadingProgress, loadingStage, jobId, essayJobId,
                   showCreditConfirmation, userCredits, insufficientCredits,
                   apiOutline, creditReads, navigated>>

HandleStartOver ==
    /\ ~navigated
    /\ error # "none"
    /\ currentStep' = IF isGeneratingEssay \/ currentStep = 4 THEN 3
                      ELSE IF isGeneratingOutline \/ currentStep = 3 THEN 1
                      ELSE currentStep
    /\ error' = "none"
    /\ UNCHANGED <<serverVars, routeVars, authVars, inputVars, observed, subs, polls, isLoading, loadingProgress,
                   loadingStage, jobId, essayJobId,
                   showCreditConfirmation, userCredits, insufficientCredits,
                   isGeneratingOutline, isGeneratingEssay, citations, outline,
                   apiOutline, creditReads, navigated>>

\* handleCitationToggle on the citations step
HandleCitationToggle(id) ==
    /\ ButtonsShown
    /\ currentStep = 5
    /\ citations' = [citations EXCEPT !.selected =
                        IF id \in @ THEN @ \ {id} ELSE @ \cup {id}]
    /\ UNCHANGED <<serverVars, routeVars, authVars, inputVars, observed, subs, polls, currentStep, isLoading,
                   loadingProgress, loadingStage, error, jobId,
                   essayJobId, showCreditConfirmation, userCredits,
                   insufficientCredits, isGeneratingOutline, isGeneratingEssay,
                   outline, apiOutline, creditReads, navigated>>

----------------------------------------------------------------------------
(* Editing the outline at step 6.  The handlers copy the outline object   *)
(* shallowly; a subsections array that came from the API is the subtopics *)
(* array of apiOutline, and is changed in place.                          *)

Titles == {"edited"}

EditFrame ==
    UNCHANGED <<serverVars, routeVars, authVars, inputVars, observed, subs, polls, currentStep, isLoading,
                loadingProgress, loadingStage, error, jobId, essayJobId,
                showCreditConfirmation, userCredits, insufficientCredits,
                isGeneratingOutline, isGeneratingEssay, citations,
                creditReads, navigated>>

OutlineShown == ButtonsShown /\ currentStep = totalSteps

RemoveAt(seq, k) == SubSeq(seq, 1, k - 1) \o SubSeq(seq, k + 1, Len(seq))

\* a write to the subsections array of section i
SetSubsections(i, new) ==
    IF outline.sections[i].shared # 0
    THEN /\ apiOutline' =
                [apiOutline EXCEPT
                    !.outline_components[outline.sections[i].shared].subtopics = new]
         /\ UNCHANGED outline
    ELSE /\ outline' = [outline EXCEPT !.sections[i].subsections = new]
         /\ UNCHANGED apiOutline

AddNewSection ==
    /\ OutlineShown
    /\ Len(outline.sections) < MaxSections
    /\ outline' = [outline EXCEPT !.sections =
                      Append(@, [title |-> "New Section", shared |-> 0,
                                 subsections |-> <<"New subsection">>])]
    /\ UNCHANGED apiOutline
    /\ EditFrame

DeleteSection(index) ==
    /\ OutlineShown
    /\ index \in 1..Len(outline.sections)
    /\ outline' = [outline EXCEPT !.sections = RemoveAt(@, index)]
    /\ UNCHANGED apiOutline
    /\ EditFrame

AddNewSubsection(sectionIndex) ==
    /\ OutlineShown
    /\ sectionIndex \in 1..Len(outline.sections)
    /\ Len(Subsections(outline.sections[sectionIndex])) < MaxSubsections
    /\ SetSubsections(sectionIndex,
                      Append(Subsections(outline.sections[sectionIndex]),
                             "New subsection"))
    /\ EditFrame

DeleteSubsection(sectionIndex, subsectionIndex) ==
    /\ OutlineShown
    /\ sectionIndex \in 1..Len(outline.sections)
    /\ subsectionIndex \in 1..Len(Subsections(outline.sections[sectionIndex]))
    /\ SetSubsections(sectionIndex,
                      RemoveAt(Subsections(outline.sections[sectionIndex]),
                               subsectionIndex))
    /\ EditFrame

\* onChange of a section's title input
RenameSection(index, value) ==
    /\ OutlineShown
    /\ index \in 1..Len(outline.sections)
    /\ outline.sections[index].title # value
    /\ outline' = [outline EXCEPT !.sections[index].title = value]
    /\ UNCHANGED apiOutline
    /\ EditFrame

\* onChange of a subsection's input
RenameSubsection(index, subIndex, value) ==
    /\ OutlineShown
    /\ index \in 1..Len(outline.sections)
    /\ subIndex \in 1..Len(Subsections(outline.sections[index]))
    /\ Subsections(outline.sections[index])[subIndex] # value
    /\ SetSubsections(index,
                      [Subsections(outline.sections[index]) EXCEPT ![subIndex] = value])
    /\ EditFrame

----------------------------------------------------------------------------
(* An API session of the user outside the form (another tab or device):    *)
(* it submits and reads the answer.                                        *)

SessionSubmit(s, kind) ==
    /\ subs[s].phase = "free"
    /\ subs' = [subs EXCEPT ![s] = SentSub(kind)]
    /\ UNCHANGED <<serverVars, routeVars, authVars, inputVars, polls, formVars, routeVars, authVars>>

SessionReceive(s) ==
    /\ subs[s].phase = "answered"
    /\ subs' = [subs EXCEPT ![s] = FreeSub]
    /\ UNCHANGED <<serverVars, routeVars, authVars, inputVars, polls, formVars, routeVars, authVars>>

Pipeline ==
    \E j \in JobIds : StageAdvance(j) \/ StageComplete(j) \/ StageFail(j)

(* Credit ledger under concurrent submissions of the same user *)
NextLedger ==
    \/ \E s \in SubSlots : \E kind \in {"outline", "essay"} : SessionSubmit(s, kind)
    \/ \E s \in SubSlots : ServerSubmit(s)
    \/ \E s \in SubSlots : SessionReceive(s)
    \/ Pipeline
    \/ \E q \in PurchaseQuantities : Purchase(q)

SpecLedger == Init /\ [][NextLedger]_vars

(* Two sessions of a user whose balance covers one debit, no purchase *)
InitRace ==
    /\ credits \in Cost..(2 * Cost - 1)
    /\ jobs = [j \in JobIds |-> NoJob]
    /\ served = [job |-> 0, snap |-> NoJob]
    /\ subs = [s \in SubSlots |-> FreeSub]
    /\ polls = EmptyBag
    /\ currentStep = 1
    /\ isLoading = FALSE
    /\ loadingProgress = 0
    /\ loadingStage = "none"
    /\ error = "none"
    /\ jobId = 0
    /\ essayJobId = 0
    /\ showCreditConfirmation = FALSE
    /\ userCredits = -1
    /\ insufficientCredits = FALSE
    /\ isGeneratingOutline = FALSE
    /\ isGeneratingEssay = FALSE
    /\ citations = PLACEHOLDER_CITATIONS
    /\ outline = PLACEHOLDER_OUTLINE
    /\ apiOutline = NoApiOutline
    /\ creditReads = {"mount"}
    /\ navigated = FALSE
    /\ observed = [j \in JobIds |-> "none"]
    /\ formData = [topic |-> ""]
    /\ pastedEssay = ""
    /\ request = NoRequest
    /\ response = NoResponse
    /\ AuthSettled

NextRace ==
    \/ \E s \in SubSlots : \E kind \in {"outline", "essay"} : SessionSubmit(s, kind)
    \/ \E s \in SubSlots : ServerSubmit(s)
    \/ \E s \in SubSlots : SessionReceive(s)
    \/ Pipeline

SpecRace == InitRace /\ [][NextRace]_vars

(* Job store and status protocol, one session submitting and polling *)
NextJobs ==
    \/ \E kind \in {"outline", "essay"} : SessionSubmit("s1", kind)
    \/ ServerSubmit("s1")
    \/ SessionReceive("s1")
    \/ Pipeline
    \/ \E j \in JobIds : GetStatus(j)

SpecJobs == Init /\ [][NextJobs]_vars

(* The form and the backend behind it.  The reads of the credit balance     *)
(* (FetchCreditsDone, RefreshCreditsDone) only feed the purchase overlay    *)
(* of step 1, which can disable NextStep: without them the form is free to  *)
(* take every step it could take with them.                                 *)
Next ==
    \/ \E t \in Texts : HandlePromptChange(t)
    \/ Back
    \/ NextStep
    \/ HandleGenerateOutline
    \/ CancelCreditConfirmation
    \/ ConfirmAndGenerateOutline
    \/ GenerateFinalEssay
    \/ \E s \in SubSlots : ServerSubmit(s)
    \/ \E s \in SubSlots : SubmitAccepted(s)
    \/ \E s \in SubSlots : ServerRejectsContent(s)
    \/ \E s \in SubSlots : SubmitRejected(s)
    \/ \E s \in SubSlots : SubmitGuardrail(s)
    \/ \E s \in SubSlots : SubmitRequestFails(s)
    \/ Pipeline
    \/ OutlineTick
    \/ EssayTick
    \/ \E r \in BagToSet(polls) : PollJobStatus(r)
    \/ \E r \in BagToSet(polls) : PollEssayStatus(r)
    \/ \E r \in BagToSet(polls) : EssayCompleted(r)
    \/ HandleStartOver

Spec == Init /\ [][Next]_vars

(* The same steps under the scheduling of the browser and the server: a  *)
(* running interval fires, a settled request or timeout runs its         *)
(* continuation, and the server answers a request that reached it.       *)
Fairness ==
    /\ WF_vars(OutlineTick)
    /\ WF_vars(EssayTick)
    /\ WF_vars(\E r \in BagToSet(polls) : PollJobStatus(r))
    /\ WF_vars(\E r \in BagToSet(polls) : PollEssayStatus(r))
    /\ WF_vars(\E r \in BagToSet(polls) : EssayCompleted(r))
    /\ WF_vars(\E s \in SubSlots : ServerSubmit(s))
    /\ WF_vars(\E s \in SubSlots : SubmitAccepted(s))

SpecLive == Spec /\ Fairness

----------------------------------------------------------------------------
(* Requests to the frontend pass the middleware when config.matcher      *)
(* matches their path.                                                    *)

HandleRequest(req) ==
    /\ request' = req
    /\ response' = IF Matches(req.pathname) THEN middleware(req) ELSE PassThrough
    /\ UNCHANGED <<serverVars, subs, polls, formVars, authVars>>

NextMiddleware == \E req \in Requests : HandleRequest(req)

SpecMiddleware == Init /\ [][NextMiddleware]_vars

----------------------------------------------------------------------------
(* The dashboard page is opened: with or without a cached session, for a   *)
(* new account or one that has its profile.                                *)

InitAuth ==
    /\ InitApp
    /\ auth \in {[user |-> NoUser, isLoading |-> TRUE],
                 [user |-> "u", isLoading |-> FALSE],
                 [user |-> NoUser, isLoading |-> FALSE]}
    /\ href = AfterAuthCheck(dashboard, auth)
    /\ profiles \in {<<>>} \cup {<<[credits |-> c, email |-> "old"]>> : c \in 0..InitialGrant}
    /\ localStorage \in {{}} \cup (IF profiles # <<>> THEN {{profileKey}} ELSE {})
    /\ ensure = [c \in Callers |->
                    [pc |-> IF c = "loadSession" THEN "getSession" ELSE "idle",
                     existingProfile |-> FALSE]]

NextAuth ==
    \/ \E outcome \in {"session", "none", "error", "throws"} : LoadSessionDone(outcome)
    \/ \E e \in AuthEvents : OnAuthStateChange(e)
    \/ \E c \in Callers, ok \in BOOLEAN : EnsureSelect(c, ok)
    \/ \E c \in Callers, ok \in BOOLEAN : EnsureWrite(c, ok)
    \/ SpendCredits

SpecAuth == InitAuth /\ [][NextAuth]_vars

----------------------------------------------------------------------------
(* The form with its reads of the balance: the fetch at mount and the     *)
(* refresh after an outline request resolve at any time.                  *)

NextCredits ==
    \/ \E outcome \in ProfileOutcomes : FetchCreditsDone(outcome)
    \/ RefreshCreditsDone
    \/ \E t \in Texts : HandlePromptChange(t)
    \/ Back
    \/ NextStep
    \/ HandleGenerateOutline
    \/ CancelCreditConfirmation
    \/ ConfirmAndGenerateOutline
    \/ \E s \in SubSlots : ServerSubmit(s)
    \/ \E s \in SubSlots : SubmitAccepted(s)
    \/ \E s \in SubSlots : SubmitRejected(s)
    \/ \E s \in SubSlots : SubmitRequestFails(s)
    \/ Pipeline
    \/ OutlineTick
    \/ \E r \in BagToSet(polls) : PollJobStatus(r)
    \/ HandleStartOver

SpecCredits == Init /\ [][NextCredits]_vars

----------------------------------------------------------------------------
(* The form of a user who has bought credits for a second outline.        *)

InitFunded ==
    /\ credits = InitialGrant + Cost
    /\ jobs = [j \in JobIds |-> NoJob]
    /\ served = [job |-> 0, snap |-> NoJob]
    /\ subs = [s \in SubSlots |-> FreeSub]
    /\ polls = EmptyBag
    /\ currentStep = 1
    /\ isLoading = FALSE
    /\ loadingProgress = 0
    /\ loadingStage = "none"
    /\ error = "none"
    /\ jobId = 0
    /\ essayJobId = 0
    /\ showCreditConfirmation = FALSE
    /\ userCredits = -1
    /\ insufficientCredits = FALSE
    /\ isGeneratingOutline = FALSE
    /\ isGeneratingEssay = FALSE
    /\ citations = PLACEHOLDER_CITATIONS
    /\ outline = PLACEHOLDER_OUTLINE
    /\ apiOutline = NoApiOutline
    /\ creditReads = {"mount"}
    /\ navigated = FALSE
    /\ observed = [j \in JobIds |-> "none"]
    /\ formData = [topic |-> ""]
    /\ pastedEssay = ""
    /\ request = NoRequest
    /\ response = NoResponse
    /\ AuthSettled

SpecFunded == InitFunded /\ [][Next]_vars

----------------------------------------------------------------------------
(* The form after an outline job completed: the user edits the outline,   *)
(* selects citations and asks for the essay; the request fails or stays   *)
(* unanswered.                                                            *)

\* the completed branch of pollJobStatus has run for job 1
InitOutlineReady ==
    /\ credits = InitialGrant - Cost
    /\ jobs = [j \in JobIds |-> IF j = 1 THEN CompletedRecord(
                                     [NewJob("outline") EXCEPT
                                         !.stage = "finding_sources"],
                                     "outline")
                                 ELSE NoJob]
    /\ served = [job |-> 0, snap |-> NoJob]
    /\ subs = [s \in SubSlots |-> FreeSub]
    /\ polls = EmptyBag
    /\ currentStep = StepAfterOutline
    /\ isLoading = FALSE
    /\ loadingProgress = 100
    /\ loadingStage = "none"
    /\ error = "none"
    /\ jobId = 0
    /\ essayJobId = 0
    /\ showCreditConfirmation = FALSE
    /\ userCredits = -1
    /\ insufficientCredits = FALSE
    /\ isGeneratingOutline = FALSE
    /\ isGeneratingEssay = FALSE
    /\ citations = ConvertedSources(1)
    /\ outline = ConvertedOutline(1)
    /\ apiOutline = ResultOutline(1)
    /\ creditReads = {"mount", "refresh"}
    /\ navigated = FALSE
    /\ observed = [j \in JobIds |-> IF j = 1 THEN "completed" ELSE "none"]
    /\ formData = [topic |-> "text"]
    /\ pastedEssay = ""
    /\ request = NoRequest
    /\ response = NoResponse
    /\ AuthSettled

NextEdit ==
    \/ Back
    \/ NextStep
    \/ AddNewSection
    \/ \E i \in 1..MaxSections : DeleteSection(i)
    \/ \E i \in 1..MaxSections : AddNewSubsection(i)
    \/ \E i \in 1..MaxSections, k \in 1..MaxSubsections : DeleteSubsection(i, k)
    \/ \E i \in 1..MaxSections, v \in Titles : RenameSection(i, v)
    \/ \E i \in 1..MaxSections, k \in 1..MaxSubsections, v \in Titles :
           RenameSubsection(i, k, v)
    \/ GenerateFinalEssay
    \/ \E s \in SubSlots : SubmitRequestFails(s)
    \/ HandleStartOver

SpecEdit == InitOutlineReady /\ [][NextEdit]_vars

NextWizard ==
    \/ \E t \in Texts : HandlePromptChange(t)
    \/ \E t \in Texts : SetPastedEssay(t)
    \/ Back
    \/ NextStep
    \/ HandleGenerateOutline
    \/ CancelCreditConfirmation
    \/ ConfirmAndGenerateOutline
    \/ \E id \in SourceIds : HandleCitationToggle(id)
    \/ GenerateFinalEssay
    \/ \E s \in SubSlots : SubmitRequestFails(s)
    \/ HandleStartOver

SpecWizard == InitOutlineReady /\ [][NextWizard]_vars

----------------------------------------------------------------------------
(* Properties of the credit ledger *)

\* the backend answers the submission of slot s in this step
Answered(s) == subs[s].phase = "sent" /\ subs'[s].phase = "answered"

\* the job store creates the record of job j in this step
Created(j) == jobs[j].kind = "none" /\ jobs'[j].kind # "none"

\* C1: a generation submission (required cost 2) that the backend answers
\* while the balance is below the cost is answered InsufficientBalance, and
\* the answer creates no job record and leaves the balance as it was.
C1_InsufficientBalance ==
    [][\A s \in SubSlots :
          (Answered(s) /\ CostOf(subs[s].kind) = Cost /\ credits < Cost)
              => /\ subs'[s].res = "InsufficientBalance"
                 /\ subs'[s].job = 0
                 /\ jobs' = jobs
                 /\ credits' = credits]_vars

\* a submission was refused at balance 1
C1_Witness ==
    \E s \in SubSlots :
        /\ subs[s].kind = "outline"
        /\ subs[s].res = "InsufficientBalance"
        /\ credits = 1
        /\ JobCount = 1

C3_AtMostOneAccepted ==
    /\ Cardinality({s \in SubSlots : subs[s].kind = "outline" /\ subs[s].res = "accepted"}) <= 1
    /\ Cardinality({j \in JobIds : jobs[j].kind = "outline"}) <= 1

\* both submissions are answered and their answers are in flight: one was
\* accepted, the other refused
C3_Witness ==
    /\ \A s \in SubSlots : subs[s].kind = "outline" /\ subs[s].phase = "answered"
    /\ \E s \in SubSlots : subs[s].res = "accepted"
    /\ \E s \in SubSlots : subs[s].res = "InsufficientBalance"
    /\ credits = 1

\* C4: the balance is a non-negative integer in every state, and a job is
\* created only in a state whose balance is at least the cost of the
\* submission.
C4_BalanceNonNegative ==
    [][/\ credits \in Nat
       /\ credits' \in Nat
       /\ \A j \in JobIds : Created(j) => credits >= CostOf(jobs'[j].kind)]_vars

\* the balance was bought up, debited and is down to nothing
C4_Witness ==
    /\ credits = 0
    /\ Cardinality({j \in JobIds : jobs[j].kind = "outline"}) = MaxJobs

----------------------------------------------------------------------------
(* Properties of the job store and the status protocol *)

\* C5: of two successive getStatus answers for a job, the first of them not
\* terminal, the second reports a progress that is not below the first's.
C5_ProgressNonDecreasing ==
    [][(/\ served.job # 0
        /\ served'.job = served.job
        /\ ~IsTerminal(served.snap))
           => served'.snap.progress >= served.snap.progress]_vars

\* getStatus answered a later stage of a job still processing, and the job
\* has moved on since
C5_Witness ==
    /\ served.job # 0
    /\ served.snap.status = "processing"
    /\ served.snap.progress > 0
    /\ jobs[served.job].progress > served.snap.progress

\* result is populated ("present")
HasResult(job) == job.result # "none"

\* error is populated ("present")
HasError(job) == job.error # "none"

\* C6: a terminal job record, in the store and as getStatus answered it,
\* has exactly one of result and error: the result iff it is completed, the
\* error iff it is failed.
C6_ResultXorError ==
    \A job \in {jobs[j] : j \in JobIds} \cup {served.snap} :
        IsTerminal(job)
            => /\ HasResult(job) <=> job.status = "completed"
               /\ HasError(job) <=> job.status = "failed"
               /\ HasResult(job) # HasError(job)

\* the store holds a completed and a failed job, and getStatus answered one
C6_Witness ==
    /\ \E j \in JobIds : jobs[j].status = "completed" /\ HasResult(jobs[j])
    /\ \E j \in JobIds : jobs[j].status = "failed" /\ HasError(jobs[j])
    /\ IsTerminal(served.snap)

\* C7: no step changes the record (status, progress, stage, result, error)
\* of a job that is completed or failed.
C7_TerminalFinal ==
    [][\A j \in JobIds : IsTerminal(jobs[j]) => jobs'[j] = jobs[j]]_vars

\* a job ended before its last stage, getStatus answered its final record,
\* and the store went on working on a later job
C7_Witness ==
    \E j \in JobIds :
        /\ jobs[j].status = "failed"
        /\ jobs[j].stage = StagesOf(jobs[j].kind)[1]
        /\ served = [job |-> j, snap |-> jobs[j]]
        /\ \E k \in JobIds : k > j /\ jobs[k].status = "completed"

----------------------------------------------------------------------------
(* Properties of the client poller *)

\* the form has a polling interval running for job j
PollingActive(j) == ~navigated /\ isLoading /\ (jobId = j \/ essayJobId = j)

\* the form issues a status request for job j in this step
Issued(j) ==
    \E r \in BagToSet(polls') :
        /\ r.job = j
        /\ r.phase = "answered"
        /\ CopiesIn(r, polls') > CopiesIn(r, polls)

\* the poll function handles the status answer r in this step
Delivered(r) == r.phase = "answered" /\ CopiesIn(r, polls') < CopiesIn(r, polls)

\* the one-second wait of a completed essay job ends in this step
WaitOver(r) == r.phase = "waiting" /\ CopiesIn(r, polls') < CopiesIn(r, polls)

TerminalSeen(j) == observed[j] \in {"completed", "failed"}

\* as long as no terminal status of a job whose id the form received has
\* been observed, the form keeps its polling interval for the job
KeepsPolling(j) == observed'[j] = "polling" => PollingActive(j)'

\* once a terminal status of the job has been observed, no status request
\* for the job is issued
StopsAfterTerminal(j) == TerminalSeen(j) => ~Issued(j)

\* C8: the poller of a job whose id the form received keeps polling the job
\* until it has observed a terminal status, and issues no status request
\* for the job after it has observed one.
C8_PollsUntilTerminal ==
    [][\A j \in JobIds : KeepsPolling(j) /\ StopsAfterTerminal(j)]_vars

\* the first half of C8 alone
C8_KeepsPollingAlone == [][\A j \in JobIds : KeepsPolling(j)]_vars

\* the second half of C8 alone
C8_StopsAfterTerminalAlone == [][\A j \in JobIds : StopsAfterTerminal(j)]_vars

C10_ToleratesFetchError ==
    [][\A r \in BagToSet(polls) :
          (/\ Delivered(r)
           /\ r.snap.status = "fetch_error"
           /\ PollingActive(r.job)
           /\ jobs[r.job].status = "processing")
              => PollingActive(r.job)' /\ error' = error]_vars

\* the job is still processing and no status answer of it was ever handled
\* but a failed fetch, yet the form shows an error and polls nothing
C10_Witness ==
    \E j \in JobIds :
        /\ jobs[j].status = "processing"
        /\ observed[j] = "polling"
        /\ loadingProgress = 0
        /\ error = "fetch_error"
        /\ ~isLoading
        /\ jobId = 0
        /\ essayJobId = 0
        /\ polls = EmptyBag

----------------------------------------------------------------------------
(* Properties of the guardrail recovery *)

\* the form handles the answer to the submission of slot s in this step
Handled(s) == subs[s].phase = "answered" /\ subs'[s].phase = "free"

\* C11: when the form learns that the outline job failed with the guardrail
\* message, or that the outline submission was refused with it, it shows
\* the topic-input step (step 1).
C11_GuardrailToTopicStep ==
    [][/\ \A r \in BagToSet(polls) :
              (/\ Delivered(r)
               /\ r.kind = "outline"
               /\ r.snap.status = "failed"
               /\ r.snap.error = "guardrail")
                  => currentStep' = TopicStep
       /\ \A s \in SubSlots :
              (Handled(s) /\ subs[s].kind = "outline" /\ subs[s].res = "guardrail")
                  => currentStep' = TopicStep]_vars

\* the outline job failed with the guardrail message, the form showed it
\* as an error, and Start Over has led to the format step (step 3)
C11_Witness ==
    /\ \E j \in JobIds :
           /\ jobs[j].kind = "outline"
           /\ jobs[j].error = "guardrail"
           /\ observed[j] = "failed"
    /\ \A j \in JobIds : jobs[j].kind # "essay"
    /\ JobCount = 1
    /\ error = "none"
    /\ ~isLoading
    /\ currentStep = 3
    /\ polls = EmptyBag

\* C12: when the generate-essay submission is refused by the guardrail, the
\* form shows the outline-editing step (step 6) after handling the answer.
C12_GuardrailToOutlineStep ==
    [][\A s \in SubSlots :
          (Handled(s) /\ subs[s].kind = "essay" /\ subs[s].res = "guardrail")
              => currentStep' = OutlineEditingStep]_vars

\* the form shows the guardrail error of the essay submission on step 2
C12_Witness ==
    /\ error = "guardrail_outline"
    /\ currentStep = 2
    /\ ~isLoading

\* the form issues a generate-essay request in this step
EssayIssued(s) ==
    /\ subs[s].phase = "free"
    /\ subs'[s].phase = "sent"
    /\ subs'[s].kind = "essay"

(* C13: the outline sent in the generate-essay request is the outline as  *)
(* the user last edited it at step 6: section renames, added and deleted  *)
(* sections and subsections are all in the request.                       *)
C13_SendsEditedOutline ==
    [][\A s \in SubSlots : EssayIssued(s) => subs'[s].outline = EditedOutline]_vars

\* a request is in flight whose outline is not the one on the screen
C13_Witness ==
    \E s \in SubSlots :
        /\ subs[s].kind = "essay"
        /\ subs[s].phase = "sent"
        /\ subs[s].outline # EditedOutline
        /\ outline.from = 1
        /\ Len(outline.sections) = 1
        /\ outline.sections[1].title = "edited"

\* the form has seen an outline-and-sources job completed with its result
OutlineObserved ==
    \E j \in JobIds :
        /\ jobs[j].kind = "outline"
        /\ jobs[j].status = "completed"
        /\ jobs[j].result = "outline"
        /\ observed[j] = "completed"
        /\ apiOutline # NoApiOutline

(* C14: a generate-essay request of the form, and so every essay job, is  *)
(* issued only after the form has observed an outline-and-sources job     *)
(* completed with a result.                                               *)
C14_EssayAfterOutline ==
    /\ \A s \in SubSlots : subs[s].kind = "essay" => OutlineObserved
    /\ \A j \in JobIds : jobs[j].kind = "essay" => OutlineObserved
    /\ essayJobId # 0 => OutlineObserved
    /\ currentStep > 4 => OutlineObserved

\* an essay job runs, created from a request of the form
C14_Witness ==
    /\ essayJobId # 0
    /\ jobs[essayJobId].kind = "essay"
    /\ jobs[essayJobId].status = "processing"
    /\ OutlineObserved
    /\ currentStep = totalSteps

\* the form has shown the failure of a job of this kind
FailedAttempt(kind) ==
    \E k \in JobIds :
        /\ jobs[k].kind = kind
        /\ jobs[k].status = "failed"
        /\ observed[k] = "failed"

(* C15: after a job ended failed, restarting and submitting again is not  *)
(* charged: the submission that repeats a failed attempt leaves the       *)
(* balance as it is, and so does the restart.                             *)
C15_RestartNotRecharged ==
    [][/\ \A j \in JobIds :
              (Created(j) /\ FailedAttempt(jobs'[j].kind)) => credits' = credits
       /\ (error # "none" /\ error' = "none" /\ ~isLoading') => credits' = credits]_vars

\* the outline job failed, the user started over, and the second outline
\* job was debited as well
C15_Witness ==
    /\ FailedAttempt("outline")
    /\ jobs[2].kind = "outline"
    /\ jobs[2].status = "processing"
    /\ credits = InitialGrant + Cost - 2 * Cost
    /\ error = "none"

\* Start Over is clicked on the error screen
StartedOver == error # "none" /\ error' = "none"

(* C16: Start Over on the error screen changes only the wizard step and   *)
(* clears the error: the typed inputs, the pasted essay, the outline and  *)
(* the citations stay as they are, and so does everything else.           *)
C16_StartOverPreservesInput ==
    [][StartedOver =>
          /\ UNCHANGED <<formData, pastedEssay, outline, apiOutline, citations>>
          /\ UNCHANGED <<serverVars, routeVars, authVars, observed, subs, polls, isLoading,
                         loadingProgress, loadingStage, jobId, essayJobId,
                         showCreditConfirmation, userCredits,
                         insufficientCredits, isGeneratingOutline,
                         isGeneratingEssay, creditReads, navigated>>
          /\ currentStep' \in {currentStep, 1, 3}]_vars

\* the error screen is shown to a user who has entered a topic, pasted an
\* essay and selected citations of a received outline
C16_Witness ==
    /\ error # "none"
    /\ formData.topic = "text"
    /\ pastedEssay = "text"
    /\ citations.from = 1
    /\ citations.selected # {}
    /\ outline.from = 1
    /\ currentStep = 4

(* C17: when an outline submission is refused for insufficient credits,  *)
(* the form stores no job id, starts no polling and shows the purchase    *)
(* prompt.                                                                *)
C17_RefusalHandling ==
    [][\A s \in SubSlots :
          (Handled(s) /\ subs[s].res = "InsufficientBalance")
              => /\ jobId' = jobId
                 /\ essayJobId' = essayJobId
                 /\ polls' = polls
                 /\ PurchasePrompt']_vars

\* the refusal was handled: no job id, no poll, and the error screen
C17_Witness ==
    /\ error = "InsufficientBalance"
    /\ jobId = 0
    /\ essayJobId = 0
    /\ polls = EmptyBag
    /\ credits < Cost
    /\ ~PurchasePrompt
    /\ \A s \in SubSlots : subs[s].phase = "free"

(* C18: the sources of a generate-essay request are the selected          *)
(* citations: one entry for each selected citation, none for an           *)
(* unselected one, so as many entries as citations are selected.          *)
C18_SelectedSourcesOnly ==
    [][\A s \in SubSlots :
          EssayIssued(s)
              => /\ Len(subs'[s].sources) = Cardinality(citations.selected)
                 /\ {subs'[s].sources[i] : i \in 1..Len(subs'[s].sources)}
                        = citations.selected
                 /\ \A i, k \in 1..Len(subs'[s].sources) :
                        subs'[s].sources[i] = subs'[s].sources[k] => i = k]_vars

\* a request is in flight for the first and the third of three citations
C18_Witness ==
    \E s \in SubSlots :
        /\ subs[s].kind = "essay"
        /\ subs[s].phase = "sent"
        /\ citations.from = 1
        /\ citations.selected = {1, 3}
        /\ subs[s].sources = <<1, 3>>

\* the form issues an outline-and-sources request in this step
OutlineIssued(s) ==
    /\ subs[s].phase = "free"
    /\ subs'[s].phase = "sent"
    /\ subs'[s].kind = "outline"

(* C19: the form issues an outline-and-sources request only when the      *)
(* balance it has fetched is at least the cost of 2; with a fetched       *)
(* balance below 2 the form is blocked and issues no request, however the *)
(* fetch interleaves with the user's steps.                               *)
C19_BalanceGate ==
    [][\A s \in SubSlots :
          OutlineIssued(s) => (userCredits >= Cost /\ ~insufficientCredits)]_vars

\* a request is in flight although the fetched balance is 0 and the form
\* has marked the credits insufficient
C19_Witness ==
    \E s \in SubSlots :
        /\ subs[s].kind = "outline"
        /\ subs[s].phase = "sent"
        /\ userCredits = 0
        /\ insufficientCredits
        /\ credits < Cost
        /\ creditReads = {}
        /\ ~PurchasePrompt

(* C20: a request to /dashboard or a path under it that comes without a  *)
(* session is answered with a redirect to /signin whose redirect parameter *)
(* is the requested path; it is never passed on to the page.              *)
C20_ProtectedRedirect ==
    (/\ request # NoRequest
     /\ isProtectedRoute(request.pathname)
     /\ request.session = "none")
        => response = Redirect(signin, request.pathname)

\* /dashboard/papers was requested without a session and passed on
C20_Witness ==
    /\ request.pathname = <<"/", "d", "a", "s", "h", "b", "o", "a", "r", "d", "/", "p", "a", "p", "e", "r", "s">>
    /\ request.session = "none"
    /\ response = PassThrough

\* a call of ensureUserProfile that found a profile finishes its write
FoundExisting(c) ==
    /\ ensure[c].pc = "write"
    /\ ensure[c].existingProfile
    /\ ensure'[c].pc # "write"

C22_AuthGate ==
    /\ ContentRendered => ~auth.isLoading /\ isAuthenticated(auth)
    /\ (~auth.isLoading /\ ~isAuthenticated(auth)) => href = signin

C22_Witness ==
    /\ ensure["loadSession"].pc = "done"
    /\ ~auth.isLoading
    /\ ~isAuthenticated(auth)
    /\ href = signin

\* every status request of the form in flight was answered by the server
FetchesSucceed == \A r \in BagToSet(polls) : r.snap.status # "fetch_error"

(* C23: under fair scheduling, when a submitted job whose id the form     *)
(* received has reached a terminal status and the status fetches          *)
(* succeed, the form eventually has observed the terminal status and no   *)
(* longer polls the job in the loading view (or has navigated away).      *)
C23_EventuallyObserved ==
    ([]FetchesSucceed) =>
        \A j \in JobIds :
            (observed[j] = "polling" /\ IsTerminal(jobs[j]))
                ~> (TerminalSeen(j) /\ ~PollingActive(j))

\* the poll function takes its completed or its failed branch for the
\* status answer r in this step
TerminalHandled(r) ==
    /\ Delivered(r)
    /\ \/ r.snap.status = "completed" /\ r.snap.result # "none"
       \/ r.snap.status = "failed"

(* C26: for each job the terminal-state handling of the form runs at most *)
(* once: no poll function takes its completed or failed branch for a job  *)
(* whose terminal status the form has already handled, whatever the       *)
(* order of the immediate poll, the interval polls and their answers.     *)
C26_TerminalHandledOnce ==
    [][\A r \in BagToSet(polls) : TerminalHandled(r) => ~TerminalSeen(r.job)]_vars

\* the request is one that the CSRF check of the middleware applies to
ApiRequest ==
    /\ request # NoRequest
    /\ \E route \in apiRoutes : StartsWith(request.pathname, route)

(* C24: a request to a path under /api/v1 with a method other than GET,   *)
(* HEAD or OPTIONS whose x-csrf-token header is absent or does not hash   *)
(* to the value of the csrf-token cookie is answered 403 and not passed   *)
(* on; a GET, HEAD or OPTIONS request is never answered 403.              *)
C24_CsrfCheck ==
    /\ (/\ ApiRequest
        /\ request.method \notin {"GET", "HEAD", "OPTIONS"}
        /\ \/ request.header = <<>>
           \/ hashToken(request.header) # request.cookie)
            => response = Forbidden
    /\ request.method \in {"GET", "HEAD", "OPTIONS"} => response # Forbidden

\* a DELETE with the cookie of one token and another token in the header
\* was answered 403
C24_Witness ==
    /\ ApiRequest
    /\ request.method = "DELETE"
    /\ request.cookie = hashToken(<<"t1">>)
    /\ request.header = <<"t2">>
    /\ response = Forbidden

(* C25: a client that holds a csrf-token cookie issued by csrfMiddleware  *)
(* and sends its value in the x-csrf-token header of a POST, PUT, DELETE  *)
(* or PATCH request is accepted; a state-changing request that comes      *)
(* without the cookie is answered with a response that sets the cookie.   *)
C25_RoundTrip ==
    (ApiRequest /\ request.method \in {"POST", "PUT", "DELETE", "PATCH"})
        => /\ (request.cookie # <<>> /\ request.header = request.cookie)
                => response # Forbidden
           /\ request.cookie = <<>> => response.setCookie # <<>>

\* the two halves of C25 alone
C25_EchoAccepted ==
    (/\ ApiRequest
     /\ request.method \in {"POST", "PUT", "DELETE", "PATCH"}
     /\ request.cookie # <<>>
     /\ request.header = request.cookie)
        => response # Forbidden

C25_CookieIssued ==
    (/\ ApiRequest
     /\ request.method \in {"POST", "PUT", "DELETE", "PATCH"}
     /\ request.cookie = <<>>)
        => response.setCookie # <<>>

(* C27: the progress the form shows never decreases while the job it      *)
(* polls is processing, and a status answer that is handled after the     *)
(* terminal answer of its job was handled changes neither loadingProgress *)
(* nor loadingStage, in whatever order overlapping answers arrive.        *)
C27_ProgressMonotone ==
    [][\A r \in BagToSet(polls) :
          Delivered(r) =>
              /\ (r.snap.status = "processing" /\ observed[r.job] = "polling")
                    => loadingProgress' >= loadingProgress
              /\ TerminalSeen(r.job)
                    => /\ loadingProgress' = loadingProgress
                       /\ loadingStage' = loadingStage]_vars

\* the two halves of C27 alone
C27_NeverDecreasesAlone ==
    [][\A r \in BagToSet(polls) :
          (Delivered(r) /\ r.snap.status = "processing" /\ observed[r.job] = "polling")
              => loadingProgress' >= loadingProgress]_vars

C27_LateAnswerIgnoredAlone ==
    [][\A r \in BagToSet(polls) :
          (Delivered(r) /\ TerminalSeen(r.job))
              => /\ loadingProgress' = loadingProgress
                 /\ loadingStage' = loadingStage]_vars

\* a submission of the form is issued in this step
SubmissionIssued == \E s \in SubSlots : OutlineIssued(s) \/ EssayIssued(s)

(* C28: at most one generation job is polled: jobId and essayJobId are    *)
(* never both set, each is set only while isLoading is true, and no       *)
(* submission is issued while isLoading is true.                          *)
C28_OneJobPolled ==
    [][/\ ~(jobId' # 0 /\ essayJobId' # 0)
       /\ (jobId' # 0 \/ essayJobId' # 0) => isLoading'
       /\ SubmissionIssued => ~isLoading]_vars

\* the three parts of C28 alone
C28_NotBothAlone == ~(jobId # 0 /\ essayJobId # 0)

C28_OnlyWhileLoadingAlone == (jobId # 0 \/ essayJobId # 0) => isLoading

C28_NoSubmissionWhileLoadingAlone == [][SubmissionIssued => ~isLoading]_vars

\* the open credit dialog is closed in this step, with the error screen
\* not in front of it
Confirmed ==
    /\ showCreditConfirmation
    /\ error = "none"
    /\ ~showCreditConfirmation'

(* C29: every outline-and-sources request is issued by the step in which  *)
(* the user confirms the open credit dialog; the Cancel button issues no  *)
(* request; one confirmation issues at most one request.                  *)
C29_ConfirmedSubmission ==
    [][/\ \A s \in SubSlots : OutlineIssued(s) => Confirmed
       /\ CancelCreditConfirmation => \A s \in SubSlots : ~OutlineIssued(s)
       /\ Cardinality({s \in SubSlots : OutlineIssued(s)}) <= 1]_vars

\* a request is in flight, issued by a confirmation after an earlier
\* dialog was cancelled: the dialog is closed and the form loads
C29_Witness ==
    /\ \E s \in SubSlots : subs[s].kind = "outline" /\ subs[s].phase = "sent"
    /\ ~showCreditConfirmation
    /\ isLoading
    /\ isGeneratingOutline

(* C30: when the profile cannot be fetched (no user, an error of the      *)
(* query, an exception), getUserCredits yields 0 and the fetch of the     *)
(* form at mount sets userCredits to 0 and insufficientCredits to true.   *)
C30_FailsClosed ==
    [][\A outcome \in ProfileOutcomes \ {"profile"} :
          /\ getUserCredits(outcome) = 0
          /\ FetchCreditsDone(outcome) => (userCredits' = 0 /\ insufficientCredits')]_vars

\* the fetch at mount failed for a user whose balance covers the cost
C30_Witness ==
    /\ credits >= Cost
    /\ "mount" \notin creditReads
    /\ userCredits = 0
    /\ insufficientCredits

====
